---- MODULE Spec2Model ----
(***************************************************************************)
(* voicemeeter-volume-sync: the console client (src/src/vm.rs) and the     *)
(* worker that mirrors the default render device's volume onto Strip[3]    *)
(* of the console (src/src/main.rs).                                       *)
(*                                                                         *)
(* ClientSpec : VoiceMeeterController alone, one action per public method. *)
(* ApplySpec  : update_volume alone, on every scalar 0.00 .. 1.00.         *)
(* Spec       : the worker process: start(), setup_volume_cb(), the event  *)
(*              loop, and the two OS callbacks posting to the channel.     *)
(* FairSpec   : Spec with the worker thread scheduled fairly.              *)
(* SupervisorSpec : the non-managed main(): spawn, wait, sleep, repeat.     *)
(* ChannelSpec    : the channel between the two callbacks and the loop.    *)
(***************************************************************************)
EXTENDS Integers, Sequences, FiniteSets

(* ------------------------------ bounds -------------------------------- *)

\* Successful console connections over one run; VoicemeeterRemote::new()
\* fails once this many handles have been handed out.
MaxHandles == 2

\* Events the unbounded channel holds at once.
MaxQueue == 2

(* ----------------------------- constants ------------------------------ *)

\* Option<VoiceMeeterControllerInner>: None, or Some(handle k), k in 1..MaxHandles.
None == 0

\* Gains are in hundredths of a dB, levels in percent of the scalar 0.0..1.0.
MIN_GAIN == -3000
MAX_GAIN == 1200

Devices == {"A", "B"}
NoDevice == "none"

\* The scalars 0.00, 0.01, .. 1.00 the volume mapping is checked on, in percent.
PercentLevels == 0..100

\* The (scalar, mute) states a device takes in the worker model.
Samples == {[level |-> 30, mute |-> FALSE], [level |-> 0, mute |-> TRUE]}

VARIABLES
    \* --- vm.rs
    inner,              \* VoiceMeeterController.inner
    connCount,          \* handles VoicemeeterRemote::new() has handed out
    call,               \* ClientSpec: record of the most recent public call
    \* --- OS audio state
    defaultDev,         \* default Render/Multimedia endpoint, or NoDevice
    volume,             \* per device: [level, mute]
    \* --- main.rs start()
    pc,                 \* position of the worker thread
    device_change_handle, \* _device_change_handle: TRUE when registered
    vol_change_handle,  \* _vol_change_handle: Result<handle>
    queue,              \* the crossbeam channel
    evt,                \* the event recv() returned
    exit,               \* how start() returned, "" while running
    \* --- main.rs setup_volume_cb()
    ep,                 \* default_audio_endpoint
    cur_vol,            \* the CurrentVolume being built (master, mute)
    ret,                \* value setup_volume_cb returns, before it is assigned
    \* --- observation
    applied,            \* the update_volume of the step just taken: its input and
                        \* result, and in ApplySpec the console calls it issued
    rebind,             \* the most recent setup_volume_cb: how each step ended
    handledDC,          \* a DeviceChange event has been handled
    \* --- main.rs main(), non-managed mode
    sup,                \* SupervisorSpec: the supervisor process and its child
    \* --- ChannelSpec
    log                 \* the events posted and dequeued so far, and the callback
                        \* the OS made in the step just taken

clientVars == <<inner, connCount>>
osVars == <<defaultDev, volume>>
setupVars == <<ep, cur_vol, ret>>
workerVars == <<pc, device_change_handle, vol_change_handle, queue, evt,
                exit, ep, cur_vol, ret, applied, rebind, handledDC>>
auxVars == <<sup, log>>
vars == <<inner, connCount, call, defaultDev, volume, pc,
          device_change_handle, vol_change_handle, queue, evt, exit,
          ep, cur_vol, ret, applied, rebind, handledDC, sup, log>>

(* ======================= vm.rs: the console client ==================== *)

\* VoicemeeterRemote::new(): c is what the console answers; the handle count
\* is capped at MaxHandles.
ConnectOk(c, n) == c /\ n < MaxHandles

\* What one call can meet: r1 the operation succeeds on the handle held, c the
\* connection attempt succeeds, r2 the operation succeeds on the new handle.  A
\* step that is not reached when the earlier ones end this way is left FALSE.
Outcomes ==
    {o \in [r1 : BOOLEAN, c : BOOLEAN, r2 : BOOLEAN] :
        (o.r1 => ~o.c) /\ (~o.c => ~o.r2)}

NoResult == [kind |-> "none", on |-> None]

\* A plausible slip: clearing the handle when the reconnect fails.
retry_once_clearing(in, n, o) ==
    IF in # None /\ o.r1
    THEN [inner |-> in, n |-> n, result |-> [kind |-> "Ok", on |-> in],
          connects |-> 0, blocks |-> <<in>>]
    ELSE LET first == IF in = None THEN <<>> ELSE <<in>>
         IN  IF ~ConnectOk(o.c, n)
             THEN [inner |-> None, n |-> n,
                   result |-> [kind |-> "ConnectionFailed", on |-> None],
                   connects |-> 1, blocks |-> first]
             ELSE [inner |-> n + 1, n |-> n + 1,
                   result |-> [kind |-> IF o.r2 THEN "Ok" ELSE "OpFailed", on |-> n + 1],
                   connects |-> 1, blocks |-> Append(first, n + 1)]

\* A plausible slip: reconnecting before looking at the handle held.
retry_once_eager(in, n, o) ==
    IF ~ConnectOk(o.c, n)
    THEN [inner |-> in, n |-> n,
          result |-> [kind |-> "ConnectionFailed", on |-> None],
          connects |-> 1, blocks |-> <<>>]
    ELSE [inner |-> n + 1, n |-> n + 1,
          result |-> [kind |-> IF o.r2 THEN "Ok" ELSE "OpFailed", on |-> n + 1],
          connects |-> 1, blocks |-> <<n + 1>>]

\* A plausible slip: running the block on the old handle again after reconnecting.
retry_once_oldhandle(in, n, o) ==
    IF in # None /\ o.r1
    THEN [inner |-> in, n |-> n, result |-> [kind |-> "Ok", on |-> in],
          connects |-> 0, blocks |-> <<in>>]
    ELSE LET first == IF in = None THEN <<>> ELSE <<in>>
         IN  IF ~ConnectOk(o.c, n)
             THEN [inner |-> in, n |-> n,
                   result |-> [kind |-> "ConnectionFailed", on |-> None],
                   connects |-> 1, blocks |-> first]
             ELSE IF in = None
                  THEN [inner |-> n + 1, n |-> n + 1,
                        result |-> [kind |-> IF o.r2 THEN "Ok" ELSE "OpFailed",
                                    on |-> n + 1],
                        connects |-> 1, blocks |-> <<n + 1>>]
                  ELSE [inner |-> n + 1, n |-> n + 1,
                        result |-> [kind |-> "OpFailed", on |-> in],
                        connects |-> 1, blocks |-> <<in, in>>]

\* A plausible slip: retrying in a loop, here one more round after a failed retry.
retry_once_again(in, n, o) ==
    IF in # None /\ o.r1
    THEN [inner |-> in, n |-> n, result |-> [kind |-> "Ok", on |-> in],
          connects |-> 0, blocks |-> <<in>>]
    ELSE LET first == IF in = None THEN <<>> ELSE <<in>>
         IN  IF ~ConnectOk(o.c, n)
             THEN [inner |-> in, n |-> n,
                   result |-> [kind |-> "ConnectionFailed", on |-> None],
                   connects |-> 1, blocks |-> first]
             ELSE IF o.r2 \/ ~ConnectOk(TRUE, n + 1)
                  THEN [inner |-> n + 1, n |-> n + 1,
                        result |-> [kind |-> IF o.r2 THEN "Ok" ELSE "OpFailed",
                                    on |-> n + 1],
                        connects |-> 1, blocks |-> Append(first, n + 1)]
                  ELSE [inner |-> n + 2, n |-> n + 2,
                        result |-> [kind |-> "Ok", on |-> n + 2],
                        connects |-> 2, blocks |-> first \o <<n + 1, n + 2>>]

\* A plausible slip: storing the new connection only when the retry succeeded.
retry_once_keep_on_ok(in, n, o) ==
    IF in # None /\ o.r1
    THEN [inner |-> in, n |-> n, result |-> [kind |-> "Ok", on |-> in],
          connects |-> 0, blocks |-> <<in>>]
    ELSE LET first == IF in = None THEN <<>> ELSE <<in>>
         IN  IF ~ConnectOk(o.c, n)
             THEN [inner |-> in, n |-> n,
                   result |-> [kind |-> "ConnectionFailed", on |-> None],
                   connects |-> 1, blocks |-> first]
             ELSE [inner |-> IF o.r2 THEN n + 1 ELSE in, n |-> n + 1,
                   result |-> [kind |-> IF o.r2 THEN "Ok" ELSE "OpFailed", on |-> n + 1],
                   connects |-> 1, blocks |-> Append(first, n + 1)]

\* retry_once(block): in is self.inner, n the handles handed out so far, o the
\* outcomes met.  The value is the new self.inner, the result returned (and the
\* handle it was obtained on), the connection attempts made and the handles the
\* block ran against, in order.
retry_once(in, n, o) ==
    IF in # None /\ o.r1
    THEN \* l.31-35: Some(v) => Ok(v)
         [inner |-> in, n |-> n, result |-> [kind |-> "Ok", on |-> in],
          connects |-> 0, blocks |-> <<in>>]
    ELSE LET first == IF in = None THEN <<>> ELSE <<in>>
         IN  IF ~ConnectOk(o.c, n)
             THEN \* l.40: `?` returns before self.inner is touched
                  [inner |-> in, n |-> n,
                   result |-> [kind |-> "ConnectionFailed", on |-> None],
                   connects |-> 1, blocks |-> first]
             ELSE \* l.42-44: block(&mut vm); self.inner = Some(vm); call_result
                  [inner |-> n + 1, n |-> n + 1,
                   result |-> [kind |-> IF o.r2 THEN "Ok" ELSE "OpFailed", on |-> n + 1],
                   connects |-> 1, blocks |-> Append(first, n + 1)]

\* VoiceMeeterController::new(): an initial connection, or None with a warning.
new(c, n) == IF ConnectOk(c, n) THEN [inner |-> n + 1, n |-> n + 1]
                                ELSE [inner |-> None, n |-> n]

\* The parameter names the worker writes; "" for the methods that take none.
Params == {"Strip[3].Mute", "Strip[3].Gain"}

\* The values written in ClientSpec: "" for the methods that write nothing.
Values == {"0.0", "1.0"}

NoCall == [op |-> "none", param |-> "", value |-> "", before |-> None, o |-> [r1 |-> FALSE, c |-> FALSE, r2 |-> FALSE],
           result |-> NoResult, connects |-> 0, blocks |-> <<>>, connected |-> None]

\* The outcomes that did not take part in a call are recorded as FALSE.
Met(in, n, o) ==
    LET firstOk == in # None /\ o.r1
        conn == ~firstOk /\ ConnectOk(o.c, n)
    IN  [r1 |-> firstOk, c |-> conn, r2 |-> conn /\ o.r2]

\* One public method: every one of them is self.retry_once(|controller| ...).
Call(op, param, value) ==
    \E o \in Outcomes :
        LET r == retry_once(inner, connCount, o)
        IN  /\ inner' = r.inner
            /\ connCount' = r.n
            /\ call' = [op |-> op, param |-> param, value |-> value, before |-> inner, o |-> Met(inner, connCount, o),
                        result |-> r.result, connects |-> r.connects,
                        blocks |-> r.blocks,
                        connected |-> IF r.n > connCount THEN r.n ELSE None]

get_version ==
    /\ Call("get_version", "", "")
    /\ UNCHANGED <<osVars, workerVars, auxVars>>
set_parameter_string ==
    /\ \E param \in Params, new_value \in Values : Call("set_parameter_string", param, new_value)
    /\ UNCHANGED <<osVars, workerVars, auxVars>>
set_parameter_float ==
    /\ \E param \in Params, new_value \in Values : Call("set_parameter_float", param, new_value)
    /\ UNCHANGED <<osVars, workerVars, auxVars>>
get_parameter_string ==
    /\ \E param \in Params : Call("get_parameter_string", param, "")
    /\ UNCHANGED <<osVars, workerVars, auxVars>>
get_parameter_float ==
    /\ \E param \in Params : Call("get_parameter_float", param, "")
    /\ UNCHANGED <<osVars, workerVars, auxVars>>
update_parameters_dirty ==
    /\ Call("update_parameters_dirty", "", "")
    /\ UNCHANGED <<osVars, workerVars, auxVars>>

NoVolume == [new_volume |-> 0, mute |-> FALSE]
\* Result<AudioEndpointVolumeCallbackHandle>: Err(..), or Ok(handle on dev).
Err == [ok |-> FALSE, dev |-> NoDevice]
NoEvent == [type |-> "none", new_volume |-> 0, mute |-> FALSE, by |-> "none"]
NoApplied == [at |-> "none", by |-> "none", volume |-> NoVolume, calls |-> <<>>, ok |-> TRUE]
NoRebind == [endpoint |-> "", read |-> "", register |-> ""]
\* No supervisor: the process was launched in managed mode.
NoSup == [pc |-> "managed", children |-> 0, status |-> "", slept |-> 0,
          launches |-> 0, err |-> ""]
NoLog == [posted |-> <<>>, received |-> <<>>, cb |-> <<>>]

WorkerIdle ==
    /\ defaultDev = NoDevice
    /\ volume = [d \in Devices |-> [level |-> 0, mute |-> FALSE]]
    /\ pc = "client"
    /\ device_change_handle = FALSE
    /\ vol_change_handle = Err
    /\ queue = <<>>
    /\ evt = NoEvent
    /\ exit = ""
    /\ ep = NoDevice
    /\ cur_vol = NoVolume
    /\ ret = Err
    /\ applied = NoApplied
    /\ rebind = NoRebind
    /\ handledDC = FALSE
    /\ sup = NoSup
    /\ log = NoLog

\* The controller as VoiceMeeterController::new() leaves it.
ClientInit ==
    /\ \E c \in BOOLEAN :
          /\ inner = new(c, 0).inner
          /\ connCount = new(c, 0).n
    /\ call = NoCall
    /\ WorkerIdle

ClientNext ==
    \/ get_version
    \/ set_parameter_string
    \/ set_parameter_float
    \/ get_parameter_string
    \/ get_parameter_float
    \/ update_parameters_dirty

ClientSpec == ClientInit /\ [][ClientNext]_vars

(* ------------------- claims about the console client ------------------ *)

Called == call.op # "none"

\* C1: a call on a connected client whose operation succeeds on the handle held
\* returns that result, makes no connection attempt and leaves the connection
\* as it was.
C1_HealthyCallNoReconnect ==
    (Called /\ call.before # None /\ call.o.r1) =>
        /\ call.result = [kind |-> "Ok", on |-> call.before]
        /\ call.connects = 0
        /\ call.blocks = <<call.before>>
        /\ inner = call.before

C1_Witness == Called /\ call.before # None /\ call.o.r1 /\ call.op = "get_parameter_float"

ReconnectFailed == Called /\ call.connects > 0 /\ ~call.o.c

\* C2 as stated: whenever the reconnect attempt inside a call fails, the call
\* returns a connection error and the client is Disconnected afterwards.
C2_Original ==
    ReconnectFailed => (call.result.kind = "ConnectionFailed" /\ inner = None)

\* C2, amended: whenever the reconnect attempt inside a call fails, the call
\* returns a connection error and the connection state is what it was before the
\* call: Disconnected if the call started Disconnected, the old (failed) handle
\* if it started Connected.
C2_ReconnectFailureKeepsState ==
    ReconnectFailed =>
        /\ call.result.kind = "ConnectionFailed"
        /\ inner = call.before
        /\ call.connected = None

C2_Witness == ReconnectFailed /\ call.before # None /\ inner = call.before

\* The number of times the block ran against handle h in the last call.
BlocksOn(h) == Cardinality({i \in 1..Len(call.blocks) : call.blocks[i] = h})

\* C3: when the first attempt fails (or there is no connection) and the
\* reconnect succeeds, the call connects exactly once, runs the operation once
\* on the new connection and returns that run's result.
C3_RetryOnNewConnection ==
    (Called /\ ~call.o.r1 /\ call.o.c) =>
        /\ call.connects = 1
        /\ call.connected # None
        /\ call.connected # call.before
        /\ BlocksOn(call.connected) = 1
        /\ call.blocks[Len(call.blocks)] = call.connected
        /\ call.result.on = call.connected
        /\ (call.result.kind = "Ok") <=> call.o.r2
        /\ (call.result.kind = "OpFailed") <=> ~call.o.r2

C3_Witness ==
    /\ Called /\ call.op = "set_parameter_float"
    /\ call.before # None /\ ~call.o.r1 /\ call.o.c /\ call.o.r2
    /\ call.result.kind = "Ok"

\* C4: one call makes at most one connection attempt and runs the operation at
\* most twice, once on the handle held and once on the new one; a failure after
\* the reconnect is returned as it is.
C4_AtMostOneReconnect ==
    Called =>
        /\ call.connects <= 1
        /\ Len(call.blocks) <= 2
        /\ \A h \in 1..(MaxHandles + 1) : BlocksOn(h) <= 1
        /\ (call.o.c /\ ~call.o.r2) =>
              (call.result.kind = "OpFailed" /\ call.result.on = call.connected)

C4_Witness ==
    Called /\ Len(call.blocks) = 2 /\ call.o.c /\ ~call.o.r2 /\ call.result.kind = "OpFailed"

\* C5: a connection established inside a call is the client's connection after
\* the call even when the retried operation failed on it, and the next call
\* makes its first attempt on that handle.
C5_NewConnectionStored ==
    [][ (Called /\ call.connected # None) =>
          /\ inner = call.connected
          /\ call'.before = call.connected
          /\ Head(call'.blocks) = call.connected ]_vars

C5_Witness ==
    /\ Called /\ call.before # None /\ call.connected # None
    /\ call.result.kind = "OpFailed" /\ inner = call.connected

(* ==================== main.rs: the volume mapping ===================== *)

\* A plausible slip: looking at the mute flag only.
muted_flag_only(vol) == IF vol.mute THEN 1 ELSE 0

\* l.131-135: 1f32 when the scalar is 0.0 or the endpoint is muted, else 0f32.
muted(vol) == IF vol.new_volume = 0 \/ vol.mute THEN 1 ELSE 0

\* A plausible slip: sending the lowest gain for a muted endpoint.
new_gain_floor_when_muted(vol) ==
    IF vol.mute THEN MIN_GAIN
    ELSE MIN_GAIN + ((MAX_GAIN - MIN_GAIN) * vol.new_volume) \div 100

\* l.136: MIN_GAIN + (MAX_GAIN - MIN_GAIN) * new_volume, in hundredths of a dB.
new_gain(vol) == MIN_GAIN + ((MAX_GAIN - MIN_GAIN) * vol.new_volume) \div 100

Failed(o) == ~o.r1 /\ ~o.r2

\* What the three calls of one update_volume can meet; a call that is not made
\* when the earlier ones end this way is left FALSE throughout.
Outcomes3 ==
    {t \in Outcomes \X Outcomes \X Outcomes :
        /\ Failed(t[1]) => (~t[2].r1 /\ ~t[2].c /\ ~t[3].r1 /\ ~t[3].c)
        /\ Failed(t[2]) => (~t[3].r1 /\ ~t[3].c)}

\* One console call as update_volume sees it.
ConsoleCall(op, param, value, r) ==
    [op |-> op, param |-> param, value |-> value, result |-> r.result.kind]

\* A plausible slip: logging a failed step and going on to the next one.
update_volume_no_cut(in, n, vol, o1, o2, o3) ==
    LET c1 == retry_once(in, n, o1)
        c2 == retry_once(c1.inner, c1.n, o2)
        c3 == retry_once(c2.inner, c2.n, o3)
    IN  [inner |-> c3.inner, n |-> c3.n,
         calls |-> << ConsoleCall("set_parameter_float", "Strip[3].Mute", muted(vol), c1),
                      ConsoleCall("set_parameter_float", "Strip[3].Gain", new_gain(vol), c2),
                      ConsoleCall("update_parameters_dirty", "", 0, c3) >>,
         ok |-> c1.result.kind = "Ok" /\ c2.result.kind = "Ok" /\ c3.result.kind = "Ok"]

\* update_volume(controller, volume): the controller afterwards, the console
\* calls issued in order, and whether Ok(()) was returned.
update_volume(in, n, vol, o1, o2, o3) ==
    LET c1 == retry_once(in, n, o1)
        k1 == ConsoleCall("set_parameter_float", "Strip[3].Mute", muted(vol), c1)
        c2 == retry_once(c1.inner, c1.n, o2)
        k2 == ConsoleCall("set_parameter_float", "Strip[3].Gain", new_gain(vol), c2)
        c3 == retry_once(c2.inner, c2.n, o3)
        k3 == ConsoleCall("update_parameters_dirty", "", 0, c3)
    IN  IF c1.result.kind # "Ok"          \* l.137 `?`
        THEN [inner |-> c1.inner, n |-> c1.n, calls |-> <<k1>>, ok |-> FALSE]
        ELSE IF c2.result.kind # "Ok"     \* l.138 `?`
        THEN [inner |-> c2.inner, n |-> c2.n, calls |-> <<k1, k2>>, ok |-> FALSE]
        ELSE [inner |-> c3.inner, n |-> c3.n, calls |-> <<k1, k2, k3>>,
              ok |-> c3.result.kind = "Ok"]

\* update_volume on its own: the sample is drawn at the start and applied
\* again and again to a controller left as VoiceMeeterController::new() leaves it.
ApplyInit ==
    /\ \E c \in BOOLEAN :
          /\ inner = new(c, 0).inner
          /\ connCount = new(c, 0).n
    /\ \E l \in PercentLevels, m \in BOOLEAN : cur_vol = [new_volume |-> l, mute |-> m]
    /\ call = NoCall
    /\ defaultDev = NoDevice
    /\ volume = [d \in Devices |-> [level |-> 0, mute |-> FALSE]]
    /\ pc = "apply"
    /\ device_change_handle = FALSE
    /\ vol_change_handle = Err
    /\ queue = <<>>
    /\ evt = NoEvent
    /\ exit = ""
    /\ ep = NoDevice
    /\ ret = Err
    /\ applied = NoApplied
    /\ rebind = NoRebind
    /\ handledDC = FALSE
    /\ sup = NoSup
    /\ log = NoLog

apply_sample ==
    /\ pc = "apply"
    /\ \E t \in Outcomes3 :
          LET r == update_volume(inner, connCount, cur_vol, t[1], t[2], t[3])
          IN  /\ inner' = r.inner
              /\ connCount' = r.n
              /\ applied' = [at |-> "apply", by |-> "none", volume |-> cur_vol,
                             calls |-> r.calls, ok |-> r.ok]
    /\ UNCHANGED <<call, auxVars, osVars, pc, device_change_handle, vol_change_handle, queue,
                   evt, exit, setupVars, rebind, handledDC>>

ApplyNext == apply_sample

ApplySpec == ApplyInit /\ [][ApplyNext]_vars

(* ================== main.rs: the notification adapters ================ *)

DataFlows == {"Render", "Capture"}
DeviceRoles == {"Console", "Multimedia", "Communications"}

DeviceChange == [type |-> "DeviceChange", new_volume |-> 0, mute |-> FALSE, by |-> "none"]

\* ChannelEvent::VolumeChange(CurrentVolume { new_volume, mute }).  `by` names the
\* subscription that posted it: "cur" the one _vol_change_handle holds, "new"
\* one registered and not yet assigned, "stale" one that has since been dropped.
VolumeChange(data, by) ==
    [type |-> "VolumeChange", new_volume |-> data.level, mute |-> data.mute, by |-> by]

\* A plausible slip: a channel that hands out the newest event first.
send_front(q, e) == <<e>> \o q

\* Sender::send: the receiver lives as long as start() runs.
send(q, e) == Append(q, e)

\* VolumeCallback::on_notify, l.149-157.
on_notify(q, data, by) == send(q, VolumeChange(data, by))

\* A plausible slip: testing the data flow and not the role.
on_default_device_changed_any_role(q, data_flow, role) ==
    IF data_flow = "Render" THEN send(q, DeviceChange) ELSE q

\* DeviceChangeCallback::on_default_device_changed, l.164-176.
on_default_device_changed(q, data_flow, role) ==
    IF data_flow = "Render" /\ role = "Multimedia" THEN send(q, DeviceChange) ELSE q

(* ======================== the OS audio subsystem ====================== *)

Running == pc \notin {"client", "apply"} /\ exit = ""

SetupPcs == {"get_endpoint", "get_volume", "get_mute", "update", "register", "assign"}

\* `applied` describes the step just taken, `rebind` the setup_volume_cb under
\* way or just assigned: any other step forgets them.
Forget ==
    /\ applied' = NoApplied
    /\ rebind' = IF pc \in SetupPcs THEN rebind ELSE NoRebind

\* The volume callbacks registered on device d: a registration lasts exactly as
\* long as its handle is alive, in _vol_change_handle or on its way there.
Listeners(d) ==
    (IF vol_change_handle.ok /\ vol_change_handle.dev = d THEN <<"cur">> ELSE <<>>)
    \o (IF ret.ok /\ ret.dev = d THEN <<"new">> ELSE <<>>)

RECURSIVE Notify(_, _, _)
Notify(q, data, bys) ==
    IF bys = <<>> THEN q ELSE Notify(on_notify(q, data, Head(bys)), data, Tail(bys))

\* The volume or mute of device d changes; the OS calls every callback
\* registered on d.
OsVolumeChange ==
    /\ Running
    /\ \E d \in Devices, data \in Samples :
          /\ volume[d] # data
          /\ volume' = [volume EXCEPT ![d] = data]
          /\ queue' = Notify(queue, data, Listeners(d))
    /\ Len(queue') <= MaxQueue
    /\ Forget
    /\ UNCHANGED <<clientVars, call, auxVars, defaultDev, pc, device_change_handle,
                   vol_change_handle, evt, exit, setupVars, handledDC>>

\* The default device of (flow, role) changes; the OS calls the notification
\* client if one is registered.  Only the Render/Multimedia default is tracked.
OsDefaultDeviceChange ==
    /\ Running
    /\ \E flow \in DataFlows, role \in DeviceRoles :
          /\ IF flow = "Render" /\ role = "Multimedia"
             THEN \E d \in (Devices \cup {NoDevice}) \ {defaultDev} : defaultDev' = d
             ELSE UNCHANGED defaultDev
          /\ queue' = IF device_change_handle
                      THEN on_default_device_changed(queue, flow, role)
                      ELSE queue
    /\ Len(queue') <= MaxQueue
    /\ Forget
    /\ UNCHANGED <<clientVars, call, auxVars, volume, pc, device_change_handle,
                   vol_change_handle, evt, exit, setupVars, handledDC>>

(* ============================ main.rs: start ========================== *)

\* l.75-76: DeviceEnumerator::new()?
start_enumerator ==
    /\ pc = "start"
    /\ \E ok \in BOOLEAN :
          IF ok THEN pc' = "controller" /\ exit' = exit
                ELSE pc' = "exited" /\ exit' = "failed to setup device enumerator"
    /\ Forget
    /\ UNCHANGED <<clientVars, call, auxVars, osVars, device_change_handle, vol_change_handle,
                   queue, evt, setupVars, handledDC>>

\* l.78: VoiceMeeterController::new()
start_controller ==
    /\ pc = "controller"
    /\ \E c \in BOOLEAN :
          /\ inner' = new(c, connCount).inner
          /\ connCount' = new(c, connCount).n
    /\ pc' = "register_device_change"
    /\ Forget
    /\ UNCHANGED <<call, auxVars, osVars, device_change_handle, vol_change_handle, queue, evt,
                   exit, setupVars, handledDC>>

\* l.80-84: the channel, and register_endpoint_notification, whose result is
\* kept in _device_change_handle without being looked at.
start_register ==
    /\ pc = "register_device_change"
    /\ \E ok \in BOOLEAN : device_change_handle' = ok
    /\ pc' = "get_endpoint"
    /\ Forget
    /\ UNCHANGED <<clientVars, call, auxVars, osVars, vol_change_handle, queue, evt, exit,
                   setupVars, handledDC>>

(* ======================= main.rs: setup_volume_cb ===================== *)

\* l.108-111: the endpoint the enumerator answers with, d being the OS's current
\* Render/Multimedia default.
get_default_audio_endpoint(d) == d

\* A plausible slip: `?` on the volume or mute read, returning the Err.
AfterReadFailure_returning == "assign"

\* l.116-124: a failed get_master_volume_level_scalar() or get_mute() is warned
\* about and setup_volume_cb goes on to register the callback.
AfterReadFailure == "register"

\* l.108-115: get_default_audio_endpoint(Render, Multimedia)? and
\* activate_audio_endpoint_volume()?
setup_get_endpoint ==
    /\ pc = "get_endpoint"
    /\ \E ok \in BOOLEAN :
          LET e == get_default_audio_endpoint(defaultDev)
          IN  IF ok /\ e # NoDevice
              THEN /\ ep' = e
                   /\ ret' = ret
                   /\ rebind' = [NoRebind EXCEPT !.endpoint = "ok"]
                   /\ pc' = "get_volume"
              ELSE /\ ep' = NoDevice
                   /\ ret' = Err
                   /\ rebind' = [NoRebind EXCEPT !.endpoint = "failed"]
                   /\ pc' = "assign"
    /\ applied' = NoApplied
    /\ UNCHANGED <<clientVars, call, auxVars, osVars, device_change_handle, vol_change_handle,
                   queue, evt, exit, cur_vol, handledDC>>

\* l.116-117: get_master_volume_level_scalar(); a failure is only warned about.
setup_get_volume ==
    /\ pc = "get_volume"
    /\ \E ok \in BOOLEAN :
          IF ok
          THEN /\ cur_vol' = [new_volume |-> volume[ep].level, mute |-> FALSE]
               /\ rebind' = rebind
               /\ pc' = "get_mute"
          ELSE /\ cur_vol' = NoVolume
               /\ rebind' = [rebind EXCEPT !.read = "failed"]
               /\ pc' = AfterReadFailure
    /\ applied' = NoApplied
    /\ UNCHANGED <<clientVars, call, auxVars, osVars, device_change_handle, vol_change_handle,
                   queue, evt, exit, ep, ret, handledDC>>

\* l.118-121: get_mute(); a failure is only warned about.
setup_get_mute ==
    /\ pc = "get_mute"
    /\ \E ok \in BOOLEAN :
          IF ok
          THEN /\ cur_vol' = [cur_vol EXCEPT !.mute = volume[ep].mute]
               /\ rebind' = [rebind EXCEPT !.read = "ok"]
               /\ pc' = "update"
          ELSE /\ cur_vol' = NoVolume
               /\ rebind' = [rebind EXCEPT !.read = "failed"]
               /\ pc' = AfterReadFailure
    /\ applied' = NoApplied
    /\ UNCHANGED <<clientVars, call, auxVars, osVars, device_change_handle, vol_change_handle,
                   queue, evt, exit, ep, ret, handledDC>>

\* A plausible slip: `?` on the result of update_volume.
AfterUpdate_propagating(ok, next) == IF ok THEN next ELSE "exited"

\* Where the worker goes after update_volume returned: l.91-93 and l.122-124
\* only warn about an Err.
AfterUpdate(ok, next) == next

\* l.122: update_volume(controller, &v)
setup_update_volume ==
    /\ pc = "update"
    /\ \E t \in Outcomes3 :
          LET r == update_volume(inner, connCount, cur_vol, t[1], t[2], t[3])
          IN  /\ inner' = r.inner
              /\ connCount' = r.n
              /\ applied' = [at |-> "setup", by |-> "none", volume |-> cur_vol,
                             calls |-> <<>>, ok |-> r.ok]
              /\ pc' = AfterUpdate(r.ok, "register")
    /\ exit' = IF pc' = "exited" THEN "failed to update current volume" ELSE exit
    /\ cur_vol' = NoVolume
    /\ UNCHANGED <<call, auxVars, osVars, device_change_handle, vol_change_handle, queue, evt,
                   ep, ret, rebind, handledDC>>

\* l.125-127: register_control_change_notify(VolumeCallback { send }) on the
\* endpoint e.
register_control_change_notify(ok, e) ==
    IF ok THEN [ok |-> TRUE, dev |-> e] ELSE Err

setup_register ==
    /\ pc = "register"
    /\ \E ok \in BOOLEAN :
          /\ ret' = register_control_change_notify(ok, ep)
          /\ rebind' = [rebind EXCEPT !.register = IF ok THEN "ok" ELSE "failed"]
    /\ ep' = NoDevice
    /\ pc' = "assign"
    /\ applied' = NoApplied
    /\ UNCHANGED <<clientVars, call, auxVars, osVars, device_change_handle, vol_change_handle,
                   queue, evt, exit, cur_vol, handledDC>>

\* What dropping the handle held and storing the new one does to the events
\* already in the channel: they stay, posted by a subscription that is gone.
Relabel(e) ==
    IF e.by = "cur" THEN [e EXCEPT !.by = "stale"]
    ELSE IF e.by = "new" THEN [e EXCEPT !.by = "cur"]
    ELSE e

\* A plausible slip: keeping the handle held when the rebind returned an Err.
Assigned_keep_on_err(old, r) == IF r.ok THEN r ELSE old

\* l.86 and l.97: _vol_change_handle = setup_volume_cb(..); the value held
\* before is dropped, which unregisters its callback.
Assigned(old, r) == r

\* A plausible slip: `?` on the value setup_volume_cb returns.
assign_propagating ==
    /\ pc = "assign"
    /\ vol_change_handle' = Assigned(vol_change_handle, ret)
    /\ ret' = Err
    /\ queue' = [i \in 1..Len(queue) |-> Relabel(queue[i])]
    /\ pc' = IF ret.ok THEN "recv" ELSE "exited"
    /\ exit' = IF ret.ok THEN exit ELSE "failed to register volume change notifier"
    /\ applied' = NoApplied
    /\ UNCHANGED <<clientVars, call, auxVars, osVars, device_change_handle, evt,
                   ep, cur_vol, rebind, handledDC>>

assign ==
    /\ pc = "assign"
    /\ vol_change_handle' = Assigned(vol_change_handle, ret)
    /\ ret' = Err
    /\ queue' = [i \in 1..Len(queue) |-> Relabel(queue[i])]
    /\ pc' = "recv"
    /\ applied' = NoApplied
    /\ UNCHANGED <<clientVars, call, auxVars, osVars, device_change_handle, evt, exit,
                   ep, cur_vol, rebind, handledDC>>

(* ========================= main.rs: the event loop ==================== *)

\* A plausible slip: `send` moved into the callbacks, start() keeping none.
Senders_in_callbacks_only ==
    (IF device_change_handle THEN 1 ELSE 0)
      + (IF vol_change_handle.ok THEN 1 ELSE 0) + (IF ret.ok THEN 1 ELSE 0)

\* The Senders alive: `send` itself (a local of start), the clone in the
\* device-change callback and the clones in the volume callbacks.
Senders ==
    1 + (IF device_change_handle THEN 1 ELSE 0)
      + (IF vol_change_handle.ok THEN 1 ELSE 0) + (IF ret.ok THEN 1 ELSE 0)

\* l.88: recv.recv()?  blocks while the channel is empty and a Sender lives.
recv ==
    /\ pc = "recv"
    /\ IF queue # <<>>
       THEN /\ evt' = Head(queue)
            /\ queue' = Tail(queue)
            /\ pc' = "dispatch"
            /\ exit' = exit
       ELSE /\ Senders = 0
            /\ evt' = evt
            /\ queue' = queue
            /\ pc' = "exited"
            /\ exit' = "communication channel disconnected"
    /\ Forget
    /\ UNCHANGED <<clientVars, call, auxVars, osVars, device_change_handle, vol_change_handle,
                   setupVars, handledDC>>

\* l.90-94: ChannelEvent::VolumeChange(current_volume)
handle_volume_change ==
    /\ pc = "dispatch"
    /\ evt.type = "VolumeChange"
    /\ \E t \in Outcomes3 :
          LET v == [new_volume |-> evt.new_volume, mute |-> evt.mute]
              r == update_volume(inner, connCount, v, t[1], t[2], t[3])
          IN  /\ inner' = r.inner
              /\ connCount' = r.n
              /\ applied' = [at |-> "loop", by |-> evt.by, volume |-> v,
                             calls |-> <<>>, ok |-> r.ok]
              /\ pc' = AfterUpdate(r.ok, "recv")
    /\ exit' = IF pc' = "exited" THEN "failed to update current volume" ELSE exit
    /\ evt' = NoEvent
    /\ UNCHANGED <<call, auxVars, osVars, device_change_handle, vol_change_handle, queue,
                   setupVars, rebind, handledDC>>

\* A plausible slip: registering the device-change callback again on every
\* DeviceChange, which replaces the handle held.
handle_device_change_reregistering ==
    /\ pc = "dispatch"
    /\ evt.type = "DeviceChange"
    /\ \E ok \in BOOLEAN : device_change_handle' = ok
    /\ pc' = "get_endpoint"
    /\ handledDC' = TRUE
    /\ evt' = NoEvent
    /\ Forget
    /\ UNCHANGED <<clientVars, call, auxVars, osVars, vol_change_handle,
                   queue, exit, setupVars>>

\* l.95-98: ChannelEvent::DeviceChange
handle_device_change ==
    /\ pc = "dispatch"
    /\ evt.type = "DeviceChange"
    /\ pc' = "get_endpoint"
    /\ handledDC' = TRUE
    /\ evt' = NoEvent
    /\ Forget
    /\ UNCHANGED <<clientVars, call, auxVars, osVars, device_change_handle, vol_change_handle,
                   queue, exit, setupVars>>

Init ==
    /\ inner = None
    /\ connCount = 0
    /\ call = NoCall
    /\ defaultDev = "A"
    /\ volume = [d \in Devices |-> [level |-> 30, mute |-> FALSE]]
    /\ pc = "start"
    /\ device_change_handle = FALSE
    /\ vol_change_handle = Err
    /\ queue = <<>>
    /\ evt = NoEvent
    /\ exit = ""
    /\ ep = NoDevice
    /\ cur_vol = NoVolume
    /\ ret = Err
    /\ applied = NoApplied
    /\ rebind = NoRebind
    /\ handledDC = FALSE
    /\ sup = NoSup
    /\ log = NoLog

Next ==
    \/ OsVolumeChange
    \/ OsDefaultDeviceChange
    \/ start_enumerator
    \/ start_controller
    \/ start_register
    \/ setup_get_endpoint
    \/ setup_get_volume
    \/ setup_get_mute
    \/ setup_update_volume
    \/ setup_register
    \/ assign
    \/ recv
    \/ handle_volume_change
    \/ handle_device_change

Spec == Init /\ [][Next]_vars

\* The steps of the worker thread; the rest of Next is the OS.
Worker ==
    \/ start_enumerator
    \/ start_controller
    \/ start_register
    \/ setup_get_endpoint
    \/ setup_get_volume
    \/ setup_get_mute
    \/ setup_update_volume
    \/ setup_register
    \/ assign
    \/ recv
    \/ handle_volume_change
    \/ handle_device_change

\* The worker thread is scheduled whenever it can take a step, and the OS and
\* console calls it makes return.
FairSpec == Spec /\ WF_vars(Worker)

(* ----------------------- claims about the worker ---------------------- *)

\* The console calls update_volume is to issue for the sample v, in order.
ExpectedCalls(v) ==
    << [op |-> "set_parameter_float", param |-> "Strip[3].Mute",
        value |-> IF v.new_volume = 0 \/ v.mute THEN 1 ELSE 0],
       [op |-> "set_parameter_float", param |-> "Strip[3].Gain",
        value |-> 42 * v.new_volume - 3000],
       [op |-> "update_parameters_dirty", param |-> "", value |-> 0] >>

Issued(k) == [op |-> k.op, param |-> k.param, value |-> k.value]

\* C6: the console calls of one apply are a prefix of set Mute, set Gain,
\* commit: all three when every step succeeds, cut right after the first step
\* that fails.
C6_CallsArePrefix ==
    applied.at = "apply" =>
        LET n == Len(applied.calls)
        IN  /\ n \in 1..3
            /\ \A i \in 1..n : Issued(applied.calls[i]) = ExpectedCalls(applied.volume)[i]
            /\ \A i \in 1..(n - 1) : applied.calls[i].result = "Ok"
            /\ n < 3 => applied.calls[n].result # "Ok"
            /\ applied.ok <=> (n = 3 /\ applied.calls[3].result = "Ok")

C6_Witness ==
    /\ applied.at = "apply"
    /\ applied.volume = [new_volume |-> 30, mute |-> FALSE]
    /\ Len(applied.calls) = 2
    /\ applied.calls[1].value = 0 /\ applied.calls[1].result = "Ok"
    /\ applied.calls[2].value = -1740 /\ applied.calls[2].result = "OpFailed"

FailedApply == applied.at \in {"loop", "setup"} /\ ~applied.ok

\* C7: a failed update_volume, in the loop or inside setup_volume_cb, does not
\* end the worker: it goes on to its next step (the receive, or the
\* registration of the callback), the events in the channel stay there, and an
\* event waiting in the channel after the failure is dequeued.
C7_FailedApplyKeepsLoop ==
    /\ [][ FailedApply' =>
             /\ exit' = ""
             /\ pc' = IF applied'.at = "loop" THEN "recv" ELSE "register"
             /\ queue' = queue
             /\ vol_change_handle' = vol_change_handle
             /\ device_change_handle' = device_change_handle ]_vars
    /\ (FailedApply /\ queue # <<>>) ~> (pc = "dispatch")

C7_Witness ==
    /\ applied.at = "loop" /\ ~applied.ok
    /\ pc = "recv" /\ exit = "" /\ queue # <<>>

\* The volume callbacks registered with the OS.
NumSubs == (IF vol_change_handle.ok THEN 1 ELSE 0) + (IF ret.ok THEN 1 ELSE 0)

SubDevs ==
    (IF vol_change_handle.ok THEN {vol_change_handle.dev} ELSE {})
    \cup (IF ret.ok THEN {ret.dev} ELSE {})

\* The worker is in the loop of start(), l.87-100.
InLoop == exit = "" /\ (pc \in {"recv", "dispatch"} \/ (handledDC /\ pc \in SetupPcs))

AtReceive == exit = "" /\ pc \in {"recv", "dispatch"}

PendingDeviceChange ==
    \/ evt.type = "DeviceChange"
    \/ \E i \in 1..Len(queue) : queue[i].type = "DeviceChange"

\* C8 as stated: while the loop runs exactly one volume callback is registered,
\* on the current default device.
C8_Original == InLoop => (NumSubs = 1 /\ SubDevs = {defaultDev})

\* C8, amended: while the loop runs at most two volume callbacks are
\* registered, and two only between the registration inside setup_volume_cb and
\* the assignment that drops the old handle; between rebinds at most one is.
\* When the device-change callback is registered and no DeviceChange event is
\* waiting, the callback held between rebinds is on the current default device.
C8_AtMostOneBetweenRebinds ==
    InLoop =>
        /\ NumSubs <= 2
        /\ NumSubs = 2 => pc = "assign"
        /\ AtReceive => NumSubs <= 1 /\ ~ret.ok
        /\ (AtReceive /\ device_change_handle /\ ~PendingDeviceChange) =>
              SubDevs \subseteq {defaultDev}

C8_Witness ==
    /\ AtReceive /\ handledDC /\ device_change_handle /\ ~PendingDeviceChange
    /\ vol_change_handle = [ok |-> TRUE, dev |-> "B"]
    /\ defaultDev = "B"

\* C9 as stated: a VolumeChange event applied after a DeviceChange event has
\* been handled was posted by the callback the most recent rebind registered.
C9_Claim == (applied.at = "loop" /\ handledDC) => applied.by = "cur"

\* The harmful case of the above: the sample applied last, with the channel
\* empty, was posted by the callback on the former default device, and is not
\* the state of the device the callback held is registered on.
C9_StaleFromFormerDevice ==
    /\ applied.at = "loop" /\ applied.ok /\ applied.by = "stale"
    /\ pc = "recv" /\ queue = <<>>
    /\ vol_change_handle = [ok |-> TRUE, dev |-> defaultDev]
    /\ defaultDev = "B"
    /\ applied.volume # [new_volume |-> volume["B"].level, mute |-> volume["B"].mute]

\* C10 as stated: when the rebind cannot get the default endpoint, or cannot
\* read its volume or mute state, it registers no callback.
C10_Original ==
    (pc = "recv" /\ (rebind.endpoint = "failed" \/ rebind.read = "failed")) =>
        (NumSubs = 0 /\ exit = "")

\* C10, amended: when the rebind cannot get the default endpoint it registers
\* no callback and _vol_change_handle is left empty; when it cannot read the
\* volume or the mute state it still registers the callback, which is missing
\* only if the registration fails.  The worker keeps running either way, and a
\* DeviceChange event it dequeues runs setup_volume_cb again.
C10_FailedRebind ==
    [][ /\ (pc' = "recv" /\ rebind'.endpoint = "failed") =>
             (~vol_change_handle'.ok /\ ~ret'.ok /\ exit' = "")
        /\ (pc' = "recv" /\ rebind'.read = "failed") =>
             /\ rebind'.register \in {"ok", "failed"}
             /\ vol_change_handle'.ok <=> rebind'.register = "ok"
             /\ ~ret'.ok
             /\ exit' = ""
        /\ (pc = "dispatch" /\ evt.type = "DeviceChange" /\ pc' # pc) =>
             (pc' = "get_endpoint" /\ exit' = "") ]_vars

C10_Witness ==
    /\ pc = "recv" /\ exit = "" /\ handledDC
    /\ rebind.endpoint = "failed"
    /\ ~vol_change_handle.ok /\ ~ret.ok
    /\ defaultDev = NoDevice
    /\ PendingDeviceChange

(* ================= main.rs: main(), the supervisor loop =============== *)

\* l.69: thread::sleep(Duration::from_secs(5)), in seconds.
BACKOFF_SECS == 5

\* Workers counted in sup.launches; the count stays at MaxLaunches from there on.
MaxLaunches == 4

\* How a worker process ends: start() returned one of its two errors, or the
\* process was aborted (the console SDK, a signal).
ExitReasons == {"failed to setup device enumerator",
                "communication channel disconnected", "aborted"}

\* The supervisor alone: the worker is a child process that runs until it ends.
SupervisorInit ==
    /\ inner = None
    /\ connCount = 0
    /\ call = NoCall
    /\ defaultDev = NoDevice
    /\ volume = [d \in Devices |-> [level |-> 0, mute |-> FALSE]]
    /\ pc = "supervisor"
    /\ device_change_handle = FALSE
    /\ vol_change_handle = Err
    /\ queue = <<>>
    /\ evt = NoEvent
    /\ exit = ""
    /\ ep = NoDevice
    /\ cur_vol = NoVolume
    /\ ret = Err
    /\ applied = NoApplied
    /\ rebind = NoRebind
    /\ handledDC = FALSE
    /\ sup = [pc |-> "spawn", children |-> 0, status |-> "", slept |-> 0,
              launches |-> 0, err |-> ""]
    /\ log = NoLog

supIdle == <<inner, connCount, call, defaultDev, volume, pc, device_change_handle,
             vol_change_handle, queue, evt, exit, ep, cur_vol, ret, applied,
             rebind, handledDC, log>>

\* l.61-66: Command::new(env::current_exe()?) ... .spawn()?
sup_spawn ==
    /\ sup.pc = "spawn"
    /\ \E exe_ok \in BOOLEAN, spawn_ok \in BOOLEAN :
          sup' = IF ~exe_ok
                 THEN [sup EXCEPT !.pc = "exited", !.err = "current_exe"]
                 ELSE IF ~spawn_ok
                 THEN [sup EXCEPT !.pc = "exited", !.err = "spawn"]
                 ELSE [sup EXCEPT !.pc = "wait",
                                  !.children = @ + 1,
                                  !.status = "",
                                  !.launches = IF @ < MaxLaunches THEN @ + 1 ELSE @]
    /\ UNCHANGED supIdle

\* The worker process ends, for whatever reason.
child_exit ==
    /\ sup.children > 0
    /\ \E reason \in ExitReasons :
          sup' = [sup EXCEPT !.children = @ - 1, !.status = reason]
    /\ UNCHANGED supIdle

\* l.67-68: .wait() returns once the child has ended; `let _ =` discards the
\* exit status.
sup_wait ==
    /\ sup.pc = "wait"
    /\ sup.children = 0
    /\ sup' = [sup EXCEPT !.pc = "sleep", !.slept = 0]
    /\ UNCHANGED supIdle

\* l.69: one second of the sleep passes.
sup_sleep ==
    /\ sup.pc = "sleep"
    /\ sup.slept < BACKOFF_SECS
    /\ sup' = [sup EXCEPT !.slept = @ + 1]
    /\ UNCHANGED supIdle

\* l.69-70: the sleep is over, back to the top of the loop.
sup_loop ==
    /\ sup.pc = "sleep"
    /\ sup.slept = BACKOFF_SECS
    /\ sup' = [sup EXCEPT !.pc = "spawn", !.slept = 0]
    /\ UNCHANGED supIdle

SupervisorNext ==
    \/ sup_spawn
    \/ child_exit
    \/ sup_wait
    \/ sup_sleep
    \/ sup_loop

SupervisorSpec == SupervisorInit /\ [][SupervisorNext]_vars

\* The supervisor process is scheduled and its sleep ends; a worker may run
\* for ever.
SupervisorFairSpec ==
    SupervisorSpec /\ WF_vars(sup_spawn) /\ WF_vars(sup_wait)
                   /\ WF_vars(sup_sleep) /\ WF_vars(sup_loop)

(* ---------------------- claims about the supervisor ------------------- *)

\* C11 as stated: the supervisor never terminates on its own, and at most one
\* worker process exists at any time.
C11_Claim == sup.pc # "exited" /\ sup.children <= 1

\* What does hold of the loop: at most one worker exists; a worker is launched
\* only after the full backoff that follows the previous worker's end, one per
\* round; and after a worker ends the supervisor gets back to the spawn, where
\* it launches a worker or returns the error of current_exe() or spawn().
C11_LoopExceptSpawnFailure ==
    /\ [](sup.children <= 1)
    /\ [][ sup'.children > sup.children =>
             /\ sup.children = 0 /\ sup'.children = 1
             /\ sup.pc = "spawn"
             /\ sup.launches > 0 => sup.status \in ExitReasons ]_vars
    /\ [][ (sup.pc = "sleep" /\ sup'.pc = "spawn") => sup.slept = BACKOFF_SECS ]_vars
    /\ [][ sup'.pc = "exited" => (sup.pc \in {"spawn", "exited"} /\ sup'.err # "") ]_vars
    /\ (sup.pc = "wait" /\ sup.children = 0)
          ~> (sup.pc = "exited" \/ (sup.pc = "wait" /\ sup.children = 1))

\* A worker has ended and the spawn of the next one failed.
C11_SpawnFailedAfterExit ==
    sup.pc = "exited" /\ sup.err = "spawn" /\ sup.launches = 1 /\ sup.status = "aborted"

(* ============ main.rs: the channel between callbacks and loop ========= *)

\* Events the callbacks post over one run of ChannelSpec.
MaxPosts == 4

\* The channel alone: start() is in its loop with both callbacks registered,
\* the OS calls them in any order and at any time, the loop dequeues.  What the
\* loop does with an event is left out; log.posted and log.received list the
\* events in the order they were sent and in the order recv() returned them.
ChannelInit ==
    /\ inner = None
    /\ connCount = 0
    /\ call = NoCall
    /\ defaultDev = "A"
    /\ volume = [d \in Devices |-> [level |-> 30, mute |-> FALSE]]
    /\ pc = "recv"
    /\ device_change_handle = TRUE
    /\ vol_change_handle = [ok |-> TRUE, dev |-> "A"]
    /\ queue = <<>>
    /\ evt = NoEvent
    /\ exit = ""
    /\ ep = NoDevice
    /\ cur_vol = NoVolume
    /\ ret = Err
    /\ applied = NoApplied
    /\ rebind = NoRebind
    /\ handledDC = FALSE
    /\ sup = NoSup
    /\ log = NoLog

chanIdle == <<inner, connCount, call, defaultDev, volume, device_change_handle,
              vol_change_handle, exit, ep, cur_vol, ret, applied, rebind,
              handledDC, sup>>

\* The OS calls VolumeCallback::on_notify(data), l.149-157.
volume_callback ==
    /\ Len(log.posted) < MaxPosts
    /\ \E data \in Samples :
          /\ queue' = on_notify(queue, data, "cur")
          /\ log' = [log EXCEPT !.posted = Append(@, VolumeChange(data, "cur")),
                                !.cb = <<"on_notify">>]
    /\ Len(queue') <= MaxQueue
    /\ UNCHANGED <<chanIdle, pc, evt>>

\* The OS calls DeviceChangeCallback::on_default_device_changed(data_flow, role, _),
\* l.164-176.
device_callback ==
    /\ Len(log.posted) < MaxPosts
    /\ \E data_flow \in DataFlows, role \in DeviceRoles :
          /\ queue' = on_default_device_changed(queue, data_flow, role)
          /\ log' = [log EXCEPT !.posted = IF queue' # queue
                                           THEN Append(@, DeviceChange) ELSE @,
                                !.cb = <<"on_default_device_changed", data_flow, role>>]
    /\ Len(queue') <= MaxQueue
    /\ UNCHANGED <<chanIdle, pc, evt>>

\* l.88: recv.recv()
channel_recv ==
    /\ pc = "recv"
    /\ queue # <<>>
    /\ evt' = Head(queue)
    /\ queue' = Tail(queue)
    /\ pc' = "dispatch"
    /\ log' = [log EXCEPT !.received = Append(@, Head(queue)), !.cb = <<>>]
    /\ UNCHANGED chanIdle

\* l.89-99: the match on evt, whatever it does; then back to recv().
channel_dispatch ==
    /\ pc = "dispatch"
    /\ evt' = NoEvent
    /\ pc' = "recv"
    /\ log' = [log EXCEPT !.cb = <<>>]
    /\ UNCHANGED <<chanIdle, queue>>

ChannelNext ==
    \/ volume_callback
    \/ device_callback
    \/ channel_recv
    \/ channel_dispatch

ChannelSpec == ChannelInit /\ [][ChannelNext]_vars

(* ----------------------- claims about the channel --------------------- *)

IsVolumeChange(e) == e.type = "VolumeChange"
IsDeviceChange(e) == e.type = "DeviceChange"

\* C12: the events one callback posted are dequeued in the order it posted
\* them, each one once: what recv() has returned so far, followed by what is
\* still in the channel, is for each callback exactly the sequence of events it
\* posted.
C12_FifoExactlyOnce ==
    LET seen == log.received \o queue
    IN  /\ SelectSeq(seen, IsVolumeChange) = SelectSeq(log.posted, IsVolumeChange)
        /\ SelectSeq(seen, IsDeviceChange) = SelectSeq(log.posted, IsDeviceChange)
        /\ Len(seen) = Len(log.posted)
        /\ pc = "dispatch" => evt = log.received[Len(log.received)]

\* Two different events of the volume callback, a DeviceChange between them,
\* all three dequeued.
C12_Witness ==
    /\ Len(log.received) = 3
    /\ log.received[1].type = "VolumeChange" /\ log.received[1].new_volume = 30
    /\ log.received[2].type = "DeviceChange"
    /\ log.received[3].type = "VolumeChange" /\ log.received[3].new_volume = 0
    /\ log.posted = log.received

\* C17: a call of on_default_device_changed posts one DeviceChange event when
\* the data flow is Render and the role is Multimedia, and nothing for any
\* other combination.
C17_DeviceChangeFilter ==
    [][ (log'.cb # <<>> /\ log'.cb[1] = "on_default_device_changed") =>
          IF log'.cb[2] = "Render" /\ log'.cb[3] = "Multimedia"
          THEN /\ Len(queue') = Len(queue) + 1
               /\ queue'[Len(queue')] = DeviceChange
               /\ SubSeq(queue', 1, Len(queue)) = queue
          ELSE queue' = queue ]_vars

C17_Witness ==
    /\ log.cb = <<"on_default_device_changed", "Render", "Console">>
    /\ Len(log.posted) = 1 /\ log.posted[1].type = "DeviceChange"
    /\ Len(queue) = 1

(* ------------------- claims about the worker's exits ------------------ *)

EnumeratorFailed == "failed to setup device enumerator"
ChannelDisconnected == "communication channel disconnected"

\* A step of the worker has just failed without start() returning: a console
\* call of update_volume, the default-endpoint query, the volume or mute read,
\* the registration of the volume callback.
RecoverableFailure ==
    \/ FailedApply
    \/ rebind.endpoint = "failed"
    \/ rebind.read = "failed"
    \/ rebind.register = "failed"

\* C13: start() returns, with an error, exactly when DeviceEnumerator::new()
\* fails or recv() reports the channel disconnected; a failed console call,
\* default-endpoint query, volume read or callback registration leaves it
\* running.
C13_ExitsOnlyOnEnumeratorOrDisconnect ==
    /\ [](pc = "exited" <=> exit # "")
    /\ [](exit \in {"", EnumeratorFailed, ChannelDisconnected})
    /\ [](RecoverableFailure => (exit = "" /\ pc # "exited"))
    /\ [][ exit' # exit =>
             \/ pc = "start" /\ exit' = EnumeratorFailed
             \/ pc = "recv" /\ queue = <<>> /\ exit' = ChannelDisconnected ]_vars
    /\ [][ (pc = "start" /\ pc' # pc) =>
             \/ pc' = "controller" /\ exit' = ""
             \/ pc' = "exited" /\ exit' = EnumeratorFailed ]_vars

C13_Witness ==
    /\ pc = "exited" /\ exit = EnumeratorFailed
    /\ inner = None /\ ~device_change_handle /\ ~vol_change_handle.ok

(* ------------------- claims about the volume mapping ------------------ *)

\* The value update_volume sent for parameter p in the apply just made.
SentTo(p) ==
    {applied.calls[i].value : i \in {j \in 1..Len(applied.calls) : applied.calls[j].param = p}}

\* C14: the Mute value sent for a sample is 1.0 when its level is exactly 0.0
\* or its muted flag is set, and 0.0 otherwise.
C14_MuteMapping ==
    applied.at = "apply" =>
        LET v == applied.volume
        IN  /\ applied.calls[1].param = "Strip[3].Mute"
            /\ (v.new_volume = 0 \/ v.mute) => SentTo("Strip[3].Mute") = {1}
            /\ (v.new_volume # 0 /\ ~v.mute) => SentTo("Strip[3].Mute") = {0}

\* Level 0.0 with the muted flag clear is sent as muted.
C14_Witness ==
    /\ applied.at = "apply"
    /\ applied.volume = [new_volume |-> 0, mute |-> FALSE]
    /\ SentTo("Strip[3].Mute") = {1}

\* C15: the Gain value sent for a sample of level l is -30 + 42 * l whatever its
\* muted flag: -30 at 0.0, 12 at 1.0, within [-30, 12] throughout, and not below
\* the gain of any lower level.  In hundredths of a dB, l in percent.
C15_GainMapping ==
    (applied.at = "apply" /\ Len(applied.calls) >= 2) =>
        LET l == applied.volume.new_volume
            g == applied.calls[2].value
        IN  /\ applied.calls[2].param = "Strip[3].Gain"
            /\ g = 42 * l - 3000
            /\ l = 0 => g = -3000
            /\ l = 100 => g = 1200
            /\ g >= -3000 /\ g <= 1200
            /\ \A l0 \in PercentLevels, m0 \in BOOLEAN :
                  /\ l0 <= l => new_gain([new_volume |-> l0, mute |-> m0]) <= g
                  /\ l0 >= l => new_gain([new_volume |-> l0, mute |-> m0]) >= g

\* A muted sample at half level is sent the gain of half level.
C15_Witness ==
    /\ applied.at = "apply"
    /\ applied.volume = [new_volume |-> 50, mute |-> TRUE]
    /\ Len(applied.calls) = 3
    /\ applied.calls[2].value = -900

(* ------------ claims about the device-change subscription ------------- *)

\* C16 as stated: the device-change callback is registered in every state of
\* the loop.
C16_Original == InLoop => device_change_handle

\* C16, amended: register_endpoint_notification is called once, before the
\* first setup_volume_cb, and what it returned is held unchanged from then on:
\* no step of the loop (VolumeChange, DeviceChange, a failed rebind, a failed
\* apply) releases or replaces it.  When the registration succeeded the
\* callback stays registered in every state of the loop, and a change of the
\* default device posts a DeviceChange; when it failed there is none.
C16_DeviceChangeHandleKept ==
    /\ [][ device_change_handle' # device_change_handle =>
             /\ pc = "register_device_change" /\ pc' = "get_endpoint"
             /\ ~handledDC /\ ~vol_change_handle.ok /\ rebind = NoRebind ]_vars
    /\ [][ (pc' = "register_device_change" /\ pc' # pc) => pc = "controller" ]_vars
    /\ [][ InLoop => (InLoop' /\ device_change_handle' = device_change_handle) ]_vars
    /\ [][ (device_change_handle /\ defaultDev' # defaultDev) =>
             queue' = Append(queue, DeviceChange) ]_vars
    /\ [][ (~device_change_handle /\ InLoop /\ defaultDev' # defaultDev) =>
             queue' = queue ]_vars

\* The callback is still registered after a DeviceChange was handled and an
\* apply in the loop failed.
C16_Witness ==
    /\ pc = "recv" /\ exit = "" /\ handledDC
    /\ device_change_handle
    /\ applied.at = "loop" /\ ~applied.ok

(* ----------------------- claims about convergence --------------------- *)

\* What update_volume writes to Strip[3] for the state of device d.
MappingOf(d) ==
    LET v == [new_volume |-> volume[d].level, mute |-> volume[d].mute]
    IN  <<muted(v), new_gain(v)>>

\* The worker is blocked in recv() on an empty channel with both callbacks
\* registered, the volume callback on the default device.
Quiescent ==
    /\ pc = "recv" /\ exit = "" /\ queue = <<>>
    /\ defaultDev # NoDevice
    /\ device_change_handle
    /\ vol_change_handle = [ok |-> TRUE, dev |-> defaultDev]
    /\ ~ret.ok

\* C18 as stated, at the moment the channel is drained by an apply whose three
\* console calls succeeded: the Mute and Gain just written are the mapping of
\* the default device's level and mute state.
C18_Claim ==
    (Quiescent /\ applied.at = "loop" /\ applied.ok) =>
        <<muted(applied.volume), new_gain(applied.volume)>> = MappingOf(defaultDev)

\* The same with the sample posted by the callback held: this much holds, the
\* samples that break C18_Claim are those of a callback dropped since.
C18_HoldsForCurrentCallback ==
    (Quiescent /\ applied.at = "loop" /\ applied.ok /\ applied.by = "cur") =>
        <<muted(applied.volume), new_gain(applied.volume)>> = MappingOf(defaultDev)

\* The other race of the claim: the first setup_volume_cb has applied the
\* sample it read, the device's volume has changed since the read, and no
\* callback was registered on the device to post the change.
C18_MissedChangeInGap ==
    /\ pc = "register" /\ ~handledDC /\ exit = ""
    /\ applied.at = "setup" /\ applied.ok
    /\ ep = defaultDev /\ device_change_handle
    /\ queue = <<>> /\ ~vol_change_handle.ok /\ ~ret.ok
    /\ <<muted(applied.volume), new_gain(applied.volume)>> # MappingOf(ep)

(* ------------------ claims about the channel's senders ---------------- *)

\* C19: once start() is in its loop a Sender is alive in every state, the
\* local `send`, whichever callback handles are held; recv() therefore blocks on
\* an empty channel instead of reporting disconnection, and no step taken in the
\* loop makes start() return.
C19_NeverDisconnected ==
    /\ [](InLoop => (Senders >= 1 /\ exit = "" /\ pc # "exited"))
    /\ [](exit # ChannelDisconnected)
    /\ [][ InLoop => (InLoop' /\ exit' = "") ]_vars
    /\ [][ (pc = "recv" /\ queue = <<>>) => (pc' = "recv" /\ evt' = evt) ]_vars

\* The loop is blocked in recv() on an empty channel with neither callback
\* registered: both registrations failed.
C19_Witness ==
    /\ pc = "recv" /\ exit = "" /\ queue = <<>>
    /\ rebind.register = "failed"
    /\ ~device_change_handle /\ ~vol_change_handle.ok /\ ~ret.ok
    /\ Senders = 1

(* ------------------ claims about the connection state ----------------- *)

\* C20: the client is Disconnected only while no connection attempt has
\* succeeded; once it holds a handle no call returns it to Disconnected, and
\* the handle held changes only to one obtained later.
C20_ConnectionMonotone ==
    /\ [](inner = None <=> connCount = 0)
    /\ [](inner \in 0..MaxHandles /\ inner <= connCount)
    /\ [][ inner # None => (inner' # None /\ inner' >= inner) ]_vars
    /\ [][ inner' # inner => (inner' = connCount' /\ connCount' = connCount + 1) ]_vars

\* A call on a connected client failed on the handle held and could not
\* reconnect: the handle is still held.
C20_Witness ==
    /\ Called /\ call.before = 1 /\ call.result.kind = "ConnectionFailed"
    /\ inner = 1 /\ connCount = 1

====
